---- MODULE Spec2Model ----
(***************************************************************************)
(* Model of src/app.py: the survey analysis script.  One run of the script *)
(* is one behaviour: the uploaded table is read, its header is trimmed and *)
(* validated, item cells are coerced to numbers, respondents are filtered, *)
(* composites, reliability, normality, correlation and significance are    *)
(* computed and the cleaned table is exported.  st.stop() ends the run.    *)
(*                                                                         *)
(* The twenty question texts of X_COLS / Y_COLS are abbreviated "X1".."X10"*)
(* and "Y1".."Y10".  A column name is the triple (leading whitespace,      *)
(* text, trailing whitespace).  A cell is <<tag, n, d>>: the number n/d,   *)
(* NaN, a string that parses as the number n, or a string that does not    *)
(* parse.  Floats are held as exact fractions in lowest terms.             *)
(* p-values are held in thousandths (0.05 is 50).                          *)
(***************************************************************************)
EXTENDS Integers, Sequences, FiniteSets, TLC

VARIABLES
    pc,         \* the stage the script is at; "stopped" after st.stop(),
                \* "crashed" after an uncaught exception
    upload,     \* uploaded_file, as pd.read_csv reads it (line 38)
    df,         \* df (lines 38-96)
    missing_x,  \* missing_x (line 80)
    missing_y,  \* missing_y (line 81)
    df_clean,   \* df_clean (lines 103-118); df_items in cronbach_alpha
    alpha_x,    \* alpha_x (line 146)
    alpha_y,    \* alpha_y (line 147)
    shapiro_x,  \* shapiro_x (line 157)
    shapiro_y,  \* shapiro_y (line 158)
    method,     \* method (lines 163-166)
    corr,       \* the routine called, the method line written, p (lines 173-181)
    out,        \* the st.* calls made so far, in order
    csv         \* csv_bytes (line 228)

vars == <<pc, upload, df, missing_x, missing_y, df_clean,
          alpha_x, alpha_y, shapiro_x, shapiro_y, method, corr, out, csv>>

-----------------------------------------------------------------------------
(* Bounds of the model *)

MaxRows == 4

MaxMiss == 3

MaxDrop == 1

MaxBlockItems == 2

MaxBlockRows == 3

-----------------------------------------------------------------------------
(* Program constants *)

NumItems == 10

MinValid == 18

-----------------------------------------------------------------------------
(* Column names and cells *)

Name(text) == [lead |-> 0, text |-> text, trail |-> 0]

Padded(text) == [lead |-> 1, text |-> text, trail |-> 2]

\* a trim that is not applied
StripNone(name) == name

Strip(name) == [lead |-> 0, text |-> name.text, trail |-> 0]

X_TEXT == <<"X1", "X2", "X3", "X4", "X5", "X6", "X7", "X8", "X9", "X10">>

Y_TEXT == <<"Y1", "Y2", "Y3", "Y4", "Y5", "Y6", "Y7", "Y8", "Y9", "Y10">>

X_COLS == [i \in 1..NumItems |-> Name(X_TEXT[i])]

Y_COLS == [i \in 1..NumItems |-> Name(Y_TEXT[i])]

ITEM_COLS == X_COLS \o Y_COLS

COMPOSITE_COLS == <<Name("X_total"), Name("Y_total"), Name("X_mean"), Name("Y_mean")>>

Range(s) == {s[i] : i \in DOMAIN s}

Num(v) == <<"num", v, 1>>

NaN == <<"nan", 0, 1>>

NumStr(v) == <<"numstr", v, 1>>

Text(v) == <<"text", v, 1>>

IsNum(cell) == cell[1] = "num"

NotNa(cell) == cell[1] # "nan"

\* pd.to_numeric(errors="coerce") on one cell
ToNumeric(cell) ==
    CASE cell[1] = "num" -> cell
      [] cell[1] = "nan" -> NaN
      [] cell[1] = "numstr" -> Num(cell[2])
      [] OTHER -> NaN

\* position of the column labelled c (first match)
ColIdx(columns, c) == CHOOSE i \in DOMAIN columns :
                          /\ columns[i] = c
                          /\ \A j \in 1..(i - 1) : columns[j] # c

HasCol(columns, c) == \E i \in DOMAIN columns : columns[i] = c

\* df[c] for one row
Cell(frame, r, c) == frame.rows[r][ColIdx(frame.columns, c)]

-----------------------------------------------------------------------------
(* Uploaded tables *)

Likert(i, r) == ((i + r) % 5) + 1

\* number of missing X / Y items of a row with m missing items
MissX(m) == (m + 1) \div 2

MissY(m) == m \div 2

\* the cell of item i of block b in row r, the row having m missing items:
\* a missing X item is a text that is no number, a missing Y item is empty;
\* a row with missing items carries its X answers as numeric strings
RawItem(b, i, r, m) ==
    IF b = "X"
    THEN IF i <= MissX(m) THEN Text(0)
         ELSE IF m > 0 THEN NumStr(Likert(i, r)) ELSE Num(Likert(i, r))
    ELSE IF i <= MissY(m) THEN NaN ELSE Num(Likert(i + 2, r))

Droppable == {X_TEXT[i] : i \in 1..MaxDrop} \cup {Y_TEXT[i] : i \in 1..MaxDrop}

\* logical columns of an upload: <<block, item index, text>>, "E" an extra column
LogicalCols(variant) ==
    LET xs == [i \in 1..NumItems |-> <<"X", i, X_TEXT[i]>>]
        ys == [i \in 1..NumItems |-> <<"Y", i, Y_TEXT[i]>>]
    IN  IF variant = "plain" THEN xs \o ys
        ELSE <<<<"E", 1, "Timestamp">>>> \o ys \o xs \o <<<<"E", 2, "Nama">>>>

Kept(variant, drop) ==
    LET keep(col) == col[3] \notin drop
    IN  SelectSeq(LogicalCols(variant), keep)

MakeUpload(variant, drop, ms) ==
    LET cols == Kept(variant, drop)
    IN  [columns |-> [j \in DOMAIN cols |->
                        IF variant = "plain" THEN Name(cols[j][3])
                        ELSE Padded(cols[j][3])],
         index |-> [r \in DOMAIN ms |-> r - 1],
         rows |-> [r \in DOMAIN ms |->
                     [j \in DOMAIN cols |->
                        IF cols[j][1] = "E" THEN Text(10 * r + cols[j][2])
                        ELSE RawItem(cols[j][1], cols[j][2], r, ms[r])]]]

SeqsUpTo(S, n) == UNION {[1..k -> S] : k \in 0..n}

\* the missing-item counts of n respondents: from start, stepping by step,
\* wrapping after MaxMiss
MissPattern(start, step, n) ==
    [r \in 1..n |-> (start + step * (r - 1)) % (MaxMiss + 1)]

MissPatterns ==
    {MissPattern(start, step, n) :
        start \in 0..MaxMiss, step \in 0..MaxMiss, n \in 0..MaxRows}

\* complete headers over every pattern of respondents, plain and decorated;
\* headers lacking columns over two respondents
Uploads ==
    {MakeUpload(v, {}, ms) : v \in {"plain", "decorated"}, ms \in MissPatterns}
    \cup
    {MakeUpload(v, d, <<0, MaxMiss>>) :
        v \in {"plain", "decorated"}, d \in (SUBSET Droppable) \ {{}}}

-----------------------------------------------------------------------------
(* Float arithmetic, NaN propagating *)

Abs(a) == IF a < 0 THEN -a ELSE a

RECURSIVE Gcd(_, _)
Gcd(a, b) == IF b = 0 THEN a ELSE Gcd(b, a % b)

Rat(n, d) ==
    LET g == Gcd(Abs(n), Abs(d))
        s == IF d < 0 THEN -1 ELSE 1
    IN  IF d = 0 THEN NaN ELSE <<"num", (s * n) \div g, (s * d) \div g>>

RAdd(a, b) == IF IsNum(a) /\ IsNum(b)
              THEN Rat(a[2] * b[3] + b[2] * a[3], a[3] * b[3]) ELSE NaN

RSub(a, b) == IF IsNum(a) /\ IsNum(b)
              THEN Rat(a[2] * b[3] - b[2] * a[3], a[3] * b[3]) ELSE NaN

RMul(a, b) == IF IsNum(a) /\ IsNum(b)
              THEN Rat(a[2] * b[2], a[3] * b[3]) ELSE NaN

RDiv(a, b) == IF IsNum(a) /\ IsNum(b)
              THEN Rat(a[2] * b[3], a[3] * b[2]) ELSE NaN

\* a > b and a < b on floats: False whenever an operand is NaN
RGt(a, b) == IsNum(a) /\ IsNum(b) /\ a[2] * b[3] > b[2] * a[3]

RLt(a, b) == IsNum(a) /\ IsNum(b) /\ a[2] * b[3] < b[2] * a[3]

REqZero(a) == IsNum(a) /\ a[2] = 0

\* number of non-missing cells
RECURSIVE Count(_)
Count(xs) == IF xs = <<>> THEN 0
             ELSE (IF NotNa(xs[1]) THEN 1 ELSE 0) + Count(Tail(xs))

\* pandas sum(skipna=True): missing cells are skipped, an empty sum is 0
RECURSIVE SumSkipNa(_)
SumSkipNa(xs) == IF xs = <<>> THEN Num(0)
                 ELSE IF NotNa(xs[1]) THEN RAdd(xs[1], SumSkipNa(Tail(xs)))
                 ELSE SumSkipNa(Tail(xs))

\* a mean that counts a missing cell as zero
MeanOverAll(xs) == RDiv(SumSkipNa(xs), Num(Len(xs)))

\* pandas mean(skipna=True): the sum of the present cells over their number
MeanSkipNa(xs) == RDiv(SumSkipNa(xs), Num(Count(xs)))

\* pandas var(ddof=1) of a column without missing cells
Var(xs) ==
    LET n == Len(xs)
        mean == RDiv(SumSkipNa(xs), Num(n))
        sq == [i \in DOMAIN xs |-> RMul(RSub(xs[i], mean), RSub(xs[i], mean))]
    IN  IF n < 2 THEN NaN ELSE RDiv(SumSkipNa(sq), Num(n - 1))

-----------------------------------------------------------------------------
(* Data frames: columns (labels), index (row labels), rows (cells by position) *)

EmptyFrame == [columns |-> <<>>, index |-> <<>>, rows |-> <<>>]

\* frame[cols]: the listed columns, in the listed order
Select(frame, cols) ==
    [columns |-> cols,
     index |-> frame.index,
     rows |-> [r \in DOMAIN frame.rows |->
                 [j \in DOMAIN cols |-> Cell(frame, r, cols[j])]]]

\* df.columns = df.columns.str.strip()
StripColumns(frame) ==
    [frame EXCEPT !.columns = [j \in DOMAIN frame.columns |-> Strip(frame.columns[j])]]

\* [c for c in cols if c not in df.columns]
Missing(cols, frame) ==
    LET absent(c) == ~HasCol(frame.columns, c)
    IN  SelectSeq(cols, absent)

\* for c in X_COLS + Y_COLS: df[c] = pd.to_numeric(df[c], errors="coerce")
Coerced(frame) ==
    [frame EXCEPT !.rows =
        [r \in DOMAIN frame.rows |->
            [j \in DOMAIN frame.columns |->
                IF frame.columns[j] \in Range(ITEM_COLS)
                THEN ToNumeric(frame.rows[r][j]) ELSE frame.rows[r][j]]]]

\* items_df.notna().sum(axis=1) for one row
ValidCount(row) == Count(row)

\* a threshold that excludes exactly 18
RetainAbove(row) == Count(row) > MinValid

\* items_df["valid_count"] >= 18
Retain(row) == ValidCount(row) >= MinValid

\* the positions of the retained rows, in order
RECURSIVE RetainedPositions(_, _)
RetainedPositions(rows, i) ==
    IF i > Len(rows) THEN <<>>
    ELSE (IF Retain(rows[i]) THEN <<i>> ELSE <<>>) \o RetainedPositions(rows, i + 1)

\* items_df[items_df["valid_count"] >= 18].drop(columns=["valid_count"])
Filtered(items_df) ==
    LET pos == RetainedPositions(items_df.rows, 1)
    IN  [columns |-> items_df.columns,
         index |-> [i \in DOMAIN pos |-> items_df.index[pos[i]]],
         rows |-> [i \in DOMAIN pos |-> items_df.rows[pos[i]]]]

\* an empty-sample test that never fires
IsEmptyNever(frame) == FALSE

\* len(df_clean) == 0
IsEmpty(frame) == Len(frame.rows) = 0

\* the row of a frame restricted to the listed columns
RowOf(frame, r, cols) == [j \in DOMAIN cols |-> Cell(frame, r, cols[j])]

\* df_clean[X_COLS].sum(axis=1) and .mean(axis=1) for one row
RowTotal(frame, r, cols) == SumSkipNa(RowOf(frame, r, cols))

RowMean(frame, r, cols) == MeanSkipNa(RowOf(frame, r, cols))

\* df_clean["X_total"] = ... ; df_clean["Y_total"] = ... ; X_mean ; Y_mean
WithComposites(frame) ==
    [columns |-> frame.columns \o COMPOSITE_COLS,
     index |-> frame.index,
     rows |-> [r \in DOMAIN frame.rows |->
                 frame.rows[r] \o <<RowTotal(frame, r, X_COLS),
                                    RowTotal(frame, r, Y_COLS),
                                    RowMean(frame, r, X_COLS),
                                    RowMean(frame, r, Y_COLS)>>]]

\* one column of a frame, as a sequence
Column(frame, c) == [r \in DOMAIN frame.rows |-> Cell(frame, r, c)]

-----------------------------------------------------------------------------
(* Cronbach's alpha *)

\* a dropna that drops only the rows missing every cell (how="all")
DropNaAll(rows) ==
    LET some(row) == \E j \in DOMAIN row : NotNa(row[j])
    IN  SelectSeq(rows, some)

\* df_items.dropna(axis=0, how="any"): the rows without a missing cell
DropNaAny(rows) ==
    LET complete(row) == \A j \in DOMAIN row : NotNa(row[j])
    IN  SelectSeq(rows, complete)

\* df_items.var(axis=0, ddof=1): one variance per item column
ItemVar(rows, k) ==
    [j \in 1..k |-> Var([r \in DOMAIN rows |-> rows[r][j]])]

\* df_items.sum(axis=1).var(ddof=1): the variance of the row sums
TotalVar(rows) == Var([r \in DOMAIN rows |-> SumSkipNa(rows[r])])

AlphaFormula(k, item_var_sum, total_var) ==
    RMul(RDiv(Num(k), Num(k - 1)), RSub(Num(1), RDiv(item_var_sum, total_var)))

cronbach_alpha(df_items) ==
    LET rows == DropNaAny(df_items.rows)
        k == Len(df_items.columns)
        item_var == ItemVar(rows, k)
        total_var == TotalVar(rows)
    IN  IF k <= 1 \/ Len(rows) = 0 THEN NaN
        ELSE IF REqZero(total_var) THEN NaN
        ELSE AlphaFormula(k, SumSkipNa(item_var), total_var)

-----------------------------------------------------------------------------
(* Library calls whose numeric result the model leaves open *)

P(thousandths) == Rat(thousandths, 1000)

Alpha == P(50)

ShapiroPs == {P(50), P(60), P(100)}

CorrPs == {NaN, P(49), P(50)}

Raised == [raised |-> TRUE, pvalue |-> NaN]

Result(p) == [raised |-> FALSE, pvalue |-> p]

\* scipy.stats.shapiro(xs): with fewer than 3 observations it raises
\* ValueError or, in releases that return NaN for too small samples, yields
\* (NaN, NaN); the statistic is read by no decision and is left out
shapiro(xs) ==
    IF Len(xs) < 3 THEN {Raised, Result(NaN)}
    ELSE {Result(p) : p \in ShapiroPs}

\* a selection that lets p = 0.05 count as normal
SelectMethodGe(px, py) ==
    IF ~RLt(px, Alpha) /\ IsNum(px) /\ ~RLt(py, Alpha) /\ IsNum(py)
    THEN "pearson" ELSE "spearman"

\* "pearson" if both p-values exceed 0.05, else "spearman"
SelectMethod(px, py) ==
    IF RGt(px, Alpha) /\ RGt(py, Alpha) THEN "pearson" ELSE "spearman"

\* the library routine called for a method, and the label written
CorrFn(m) == IF m = "pearson" THEN "pearsonr" ELSE "spearmanr"

CorrLabel(m) == IF m = "pearson" THEN "Pearson Correlation"
                ELSE "Spearman Rank Correlation"

\* a verdict that counts p = 0.05 as significant
SignificanceLe(p) == IF IsNum(p) /\ ~RGt(p, Alpha) THEN "significant" ELSE "not_significant"

\* if p < 0.05: st.success(...) else: st.warning(...)
Significance(p) == IF RLt(p, Alpha) THEN "significant" ELSE "not_significant"

\* df_clean.to_csv(index=False): a header line and one line per row, a
\* missing cell written as an empty field, a number as its decimal text
CsvField(cell) == IF IsNum(cell) THEN <<"numstr", cell[2], cell[3]>>
                  ELSE <<"empty", 0, 1>>

\* an export that writes the index column too (index=True)
ToCsvWithIndex(frame) ==
    [header |-> <<Name("")>> \o frame.columns,
     lines |-> [r \in DOMAIN frame.rows |->
                  <<CsvField(Num(frame.index[r]))>> \o
                  [j \in DOMAIN frame.columns |-> CsvField(frame.rows[r][j])]]]

ToCsv(frame) ==
    [header |-> frame.columns,
     lines |-> [r \in DOMAIN frame.rows |->
                  [j \in DOMAIN frame.columns |-> CsvField(frame.rows[r][j])]]]

NoCsv == [header |-> <<>>, lines |-> <<>>]

-----------------------------------------------------------------------------
(* The run *)

Said(kind, tag, args) == [kind |-> kind, tag |-> tag, args |-> args]

NoResult == Result(NaN)

NoCorr == [fn |-> "none", label |-> "none", pvalue |-> NaN]

Init ==
    /\ upload \in Uploads
    /\ pc = "read"
    /\ df = EmptyFrame
    /\ missing_x = <<>>
    /\ missing_y = <<>>
    /\ df_clean = EmptyFrame
    /\ alpha_x = NaN
    /\ alpha_y = NaN
    /\ shapiro_x = NoResult
    /\ shapiro_y = NoResult
    /\ method = "none"
    /\ corr = NoCorr
    /\ out = <<>>
    /\ csv = NoCsv

\* lines 38-44: read the file, show the preview, trim the column names
ReadCsv ==
    /\ pc = "read"
    /\ df' = StripColumns(upload)
    /\ out' = Append(out, Said("dataframe", "preview", <<>>))
    /\ pc' = "schema"
    /\ UNCHANGED <<upload, missing_x, missing_y, df_clean, alpha_x, alpha_y,
                   shapiro_x, shapiro_y, method, corr, csv>>

\* lines 80-90: the schema check; st.error and st.stop() on a missing column
CheckSchema ==
    /\ pc = "schema"
    /\ missing_x' = Missing(X_COLS, df)
    /\ missing_y' = Missing(Y_COLS, df)
    /\ IF missing_x' # <<>> \/ missing_y' # <<>>
       THEN /\ out' = Append(out, Said("error", "missing_columns",
                                       <<missing_x', missing_y'>>))
            /\ pc' = "stopped"
       ELSE /\ out' = out
            /\ pc' = "coerce"
    /\ UNCHANGED <<upload, df, df_clean, alpha_x, alpha_y,
                   shapiro_x, shapiro_y, method, corr, csv>>

\* lines 95-96: numeric coercion of the item columns
Coerce ==
    /\ pc = "coerce"
    /\ df' = Coerced(df)
    /\ pc' = "filter"
    /\ UNCHANGED <<upload, missing_x, missing_y, df_clean, alpha_x, alpha_y,
                   shapiro_x, shapiro_y, method, corr, out, csv>>

\* lines 99-110: the item frame, the filter, the count, the empty-sample stop
Filter ==
    /\ pc = "filter"
    /\ df_clean' = Filtered(Select(df, ITEM_COLS))
    /\ IF IsEmpty(df_clean')
       THEN /\ out' = out \o <<Said("success", "count", <<0>>),
                               Said("error", "no_valid_respondents", <<>>)>>
            /\ pc' = "stopped"
       ELSE /\ out' = Append(out, Said("success", "count", <<Len(df_clean'.rows)>>))
            /\ pc' = "composite"
    /\ UNCHANGED <<upload, df, missing_x, missing_y, alpha_x, alpha_y,
                   shapiro_x, shapiro_y, method, corr, csv>>

\* lines 115-127: the composite columns and the descriptive tables
Composite ==
    /\ pc = "composite"
    /\ df_clean' = WithComposites(df_clean)
    /\ out' = Append(out, Said("write", "describe", <<>>))
    /\ pc' = "reliability"
    /\ UNCHANGED <<upload, df, missing_x, missing_y, alpha_x, alpha_y,
                   shapiro_x, shapiro_y, method, corr, csv>>

\* lines 146-150: alpha of each block, written with four decimals
Reliability ==
    /\ pc = "reliability"
    /\ alpha_x' = cronbach_alpha(Select(df_clean, X_COLS))
    /\ alpha_y' = cronbach_alpha(Select(df_clean, Y_COLS))
    /\ out' = out \o <<Said("write", "alpha_x", <<alpha_x'>>),
                       Said("write", "alpha_y", <<alpha_y'>>)>>
    /\ pc' = "shapiro"
    /\ UNCHANGED <<upload, df, missing_x, missing_y, df_clean,
                   shapiro_x, shapiro_y, method, corr, csv>>

\* lines 157-166: the normality tests, their report, the method selection
Normality ==
    /\ pc = "shapiro"
    /\ \E sx \in shapiro(Column(df_clean, Name("X_total"))) :
         IF sx.raised
         THEN /\ pc' = "crashed"
              /\ out' = Append(out, Said("exception", "shapiro", <<>>))
              /\ UNCHANGED <<shapiro_x, shapiro_y, method>>
         ELSE \E sy \in shapiro(Column(df_clean, Name("Y_total"))) :
                /\ ~sy.raised
                /\ shapiro_x' = sx
                /\ shapiro_y' = sy
                /\ out' = out \o <<Said("write", "shapiro_x", <<sx.pvalue>>),
                                   Said("write", "shapiro_y", <<sy.pvalue>>)>>
                /\ method' = SelectMethod(sx.pvalue, sy.pvalue)
                /\ pc' = "correlate"
    /\ UNCHANGED <<upload, df, missing_x, missing_y, df_clean,
                   alpha_x, alpha_y, corr, csv>>

\* lines 173-192: the correlation by the selected method and the verdict
Correlate ==
    /\ pc = "correlate"
    /\ \E p \in CorrPs :
         /\ corr' = [fn |-> CorrFn(method), label |-> CorrLabel(method), pvalue |-> p]
         /\ out' = out \o <<Said("write", "method", <<CorrLabel(method)>>),
                            Said("write", "p", <<p>>),
                            Said("verdict", Significance(p), <<>>)>>
    /\ pc' = "export"
    /\ UNCHANGED <<upload, df, missing_x, missing_y, df_clean,
                   alpha_x, alpha_y, shapiro_x, shapiro_y, method, csv>>

\* lines 197-234: the charts and the download button with the exported table
Export ==
    /\ pc = "export"
    /\ csv' = ToCsv(df_clean)
    /\ out' = Append(out, Said("download_button", "csv", <<>>))
    /\ pc' = "done"
    /\ UNCHANGED <<upload, df, missing_x, missing_y, df_clean,
                   alpha_x, alpha_y, shapiro_x, shapiro_y, method, corr>>

Next ==
    \/ ReadCsv
    \/ CheckSchema
    \/ Coerce
    \/ Filter
    \/ Composite
    \/ Reliability
    \/ Normality
    \/ Correlate
    \/ Export

Spec == Init /\ [][Next]_vars

-----------------------------------------------------------------------------
(* What the claims speak of, stated on the uploaded table itself *)

\* the upload has a column whose text, whitespace aside, is t
Present(t) == \E j \in DOMAIN upload.columns : upload.columns[j].text = t

AbsentX == {X_TEXT[i] : i \in {i \in 1..NumItems : ~Present(X_TEXT[i])}}

AbsentY == {Y_TEXT[i] : i \in {i \in 1..NumItems : ~Present(Y_TEXT[i])}}

SchemaOk == AbsentX = {} /\ AbsentY = {}

Texts(names) == {names[i].text : i \in DOMAIN names}

\* the uploaded cell of respondent r under the column of text t
Raw(r, t) ==
    upload.rows[r][CHOOSE j \in DOMAIN upload.columns : upload.columns[j].text = t]

\* the cell holds a number, as a number or as its text
Parses(cell) == cell[1] \in {"num", "numstr"}

PresentItems(r, texts) == {i \in 1..NumItems : Parses(Raw(r, texts[i]))}

ItemsPresent(r) ==
    Cardinality(PresentItems(r, X_TEXT)) + Cardinality(PresentItems(r, Y_TEXT))

Respondents == DOMAIN upload.rows

ShouldRetain == {r \in Respondents : ItemsPresent(r) >= 18}

Tags == {out[i].tag : i \in DOMAIN out}

AnalysisTags == {"describe", "alpha_x", "alpha_y", "shapiro_x", "shapiro_y",
                 "method", "p", "significant", "not_significant", "csv"}

AfterSchema == pc \notin {"read", "schema"}

AfterFilter == pc \notin {"read", "schema", "coerce", "filter"}

\* C1: a header lacking required columns is reported with exactly the missing
\* X names and exactly the missing Y names and the run stops with nothing
\* coerced, filtered or computed; a complete header raises no schema error.
C1_SchemaCheck ==
    AfterSchema =>
        IF SchemaOk
        THEN "missing_columns" \notin Tags
        ELSE /\ pc = "stopped"
             /\ out[Len(out)].kind = "error"
             /\ out[Len(out)].tag = "missing_columns"
             /\ Texts(out[Len(out)].args[1]) = AbsentX
             /\ Texts(out[Len(out)].args[2]) = AbsentY
             /\ Len(out[Len(out)].args[1]) = Cardinality(AbsentX)
             /\ Len(out[Len(out)].args[2]) = Cardinality(AbsentY)
             /\ df.rows = upload.rows
             /\ df_clean = EmptyFrame
             /\ csv = NoCsv
             /\ Tags \cap (AnalysisTags \cup {"count"}) = {}

C1_Witness ==
    /\ pc = "stopped"
    /\ AbsentX # {}
    /\ AbsentY # {}
    /\ \E j \in DOMAIN upload.columns : upload.columns[j].lead > 0
    /\ Len(upload.rows) > 0

\* C2: a respondent is retained iff at least 18 of its 20 item cells hold a
\* number after coercion; every row of the filtered frame has at least 18.
C2_ListwiseFilter ==
    (AfterFilter /\ SchemaOk) =>
        /\ Range(df_clean.index) = {r - 1 : r \in ShouldRetain}
        /\ Len(df_clean.index) = Cardinality(ShouldRetain)
        /\ \A i \in DOMAIN df_clean.rows :
              Cardinality({j \in 1..(2 * NumItems) : IsNum(df_clean.rows[i][j])}) >= 18

C2_Witness ==
    /\ AfterFilter
    /\ SchemaOk
    /\ \E r \in Respondents : ItemsPresent(r) = 18 /\ (r - 1) \in Range(df_clean.index)
    /\ \E r \in Respondents : ItemsPresent(r) = 17 /\ (r - 1) \notin Range(df_clean.index)

\* C3: with no respondent surviving the filter the run reports "no valid
\* respondents" and stops: no composite, reliability, normality, correlation
\* or export is produced.
C3_EmptySample ==
    (AfterFilter /\ SchemaOk /\ ShouldRetain = {}) =>
        /\ pc = "stopped"
        /\ out[Len(out)].kind = "error"
        /\ out[Len(out)].tag = "no_valid_respondents"
        /\ Tags \cap AnalysisTags = {}
        /\ df_clean.columns = ITEM_COLS
        /\ method = "none"
        /\ corr = NoCorr
        /\ csv = NoCsv

C3_Witness ==
    /\ pc = "stopped"
    /\ SchemaOk
    /\ Len(upload.rows) >= 2
    /\ ShouldRetain = {}

Reached(stage) == \E i \in DOMAIN out : out[i].tag = stage

\* C4: a run that passes the schema check and retains at least one
\* respondent never aborts between the filter and the export.
C4_OnlyTwoHaltingPoints ==
    (AfterFilter /\ SchemaOk /\ ShouldRetain # {}) =>
        /\ pc \notin {"crashed", "stopped"}
        /\ "exception" \notin {out[i].kind : i \in DOMAIN out}

\* C5: with fewer than 3 retained respondents the normality stage reports the
\* test as not computable, as a condition of its own and not as a statistic /
\* p-value pair, the run goes on, and the rank-based method is selected.
C5_SmallSampleReported ==
    (SchemaOk /\ ShouldRetain # {} /\ Cardinality(ShouldRetain) < 3
        /\ pc \in {"crashed", "correlate", "export", "done"}) =>
        /\ pc # "crashed"
        /\ Reached("insufficient_observations")
        /\ ~Reached("shapiro_x")
        /\ ~Reached("shapiro_y")
        /\ method = "spearman"

Exceeds05(p) == IsNum(p) /\ 100 * p[2] > 5 * p[3]

Below05(p) == IsNum(p) /\ 100 * p[2] < 5 * p[3]

\* C6: Pearson is selected iff both normality p-values are strictly above
\* 0.05, Spearman otherwise (p = 0.05 included); the routine called and the
\* method name written are those of the selected method.
C6_MethodSelection ==
    /\ pc \in {"correlate", "export", "done"} =>
          /\ method \in {"pearson", "spearman"}
          /\ method = "pearson" <=>
                (Exceeds05(shapiro_x.pvalue) /\ Exceeds05(shapiro_y.pvalue))
    /\ pc \in {"export", "done"} =>
          /\ method = "pearson" =>
                corr.fn = "pearsonr" /\ corr.label = "Pearson Correlation"
          /\ method = "spearman" =>
                corr.fn = "spearmanr" /\ corr.label = "Spearman Rank Correlation"
          /\ \E i \in DOMAIN out : out[i].tag = "method" /\ out[i].args = <<corr.label>>

C6_Witness ==
    /\ pc = "done"
    /\ shapiro_x.pvalue = P(100)
    /\ shapiro_y.pvalue = P(60)
    /\ method = "pearson"
    /\ corr.fn = "pearsonr"

C6_WitnessBoundary ==
    /\ pc = "done"
    /\ shapiro_x.pvalue = P(100)
    /\ shapiro_y.pvalue = P(50)
    /\ method = "spearman"

RECURSIVE SumOver(_, _, _)
SumOver(r, texts, items) ==
    IF items = {} THEN 0
    ELSE LET i == CHOOSE i \in items : TRUE
         IN  Raw(r, texts[i])[2] + SumOver(r, texts, items \ {i})

BlockSum(r, texts) == SumOver(r, texts, PresentItems(r, texts))

BlockCount(r, texts) == Cardinality(PresentItems(r, texts))

HasComposites == Len(df_clean.columns) = 2 * NumItems + 4

\* C8: for every retained respondent X_total (Y_total) is the sum of the
\* present X (Y) items and X_mean (Y_mean) is that sum over the number of
\* present items of the block; only retained respondents get composites.
C8_CompositeScores ==
    (SchemaOk /\ HasComposites) =>
        /\ Range(df_clean.index) \subseteq {r - 1 : r \in ShouldRetain}
        /\ \A i \in DOMAIN df_clean.rows :
              LET r == df_clean.index[i] + 1
                  row == df_clean.rows[i]
                  xt == row[2 * NumItems + 1]
                  yt == row[2 * NumItems + 2]
                  xm == row[2 * NumItems + 3]
                  ym == row[2 * NumItems + 4]
              IN  /\ xt = <<"num", BlockSum(r, X_TEXT), 1>>
                  /\ yt = <<"num", BlockSum(r, Y_TEXT), 1>>
                  /\ IsNum(xm) /\ xm[2] * BlockCount(r, X_TEXT) = BlockSum(r, X_TEXT) * xm[3]
                  /\ IsNum(ym) /\ ym[2] * BlockCount(r, Y_TEXT) = BlockSum(r, Y_TEXT) * ym[3]

C8_Witness ==
    /\ pc = "done"
    /\ \E i \in DOMAIN df_clean.rows :
          /\ BlockCount(df_clean.index[i] + 1, X_TEXT) = 9
          /\ BlockCount(df_clean.index[i] + 1, Y_TEXT) = 9
    /\ \E i \in DOMAIN df_clean.rows :
          BlockCount(df_clean.index[i] + 1, X_TEXT) = 10

Verdicts == {i \in DOMAIN out : out[i].kind = "verdict"}

\* C9: the verdict is "significant" iff the correlation p-value is strictly
\* below 0.05, and exactly one verdict is reported once the correlation ran.
C9_Significance ==
    pc \in {"export", "done"} =>
        /\ Cardinality(Verdicts) = 1
        /\ \A i \in Verdicts :
              out[i].tag = (IF Below05(corr.pvalue) THEN "significant"
                            ELSE "not_significant")

C9_Witness ==
    /\ pc = "done"
    /\ corr.pvalue = P(50)
    /\ \E i \in Verdicts : out[i].tag = "not_significant"

C9_WitnessSignificant ==
    /\ pc = "done"
    /\ corr.pvalue = P(49)
    /\ \E i \in Verdicts : out[i].tag = "significant"

\* the i-th respondent, in upload order, among those that should be retained
NthRetained(i) ==
    CHOOSE r \in ShouldRetain : Cardinality({q \in ShouldRetain : q < r}) = i - 1

\* the exported field of an uploaded item cell
Field(cell) == IF Parses(cell) THEN <<"numstr", cell[2], 1>> ELSE <<"empty", 0, 1>>

HeaderTexts(names) == [j \in DOMAIN names |-> names[j].text]

\* C10 as stated: the export holds the retained respondents in input order,
\* each with all columns of its uploaded row, the other columns passed
\* through, followed by the four composite columns.
C10_OriginalRowsExported ==
    pc = "done" =>
        /\ Len(csv.lines) = Cardinality(ShouldRetain)
        /\ HeaderTexts(csv.header) =
              HeaderTexts(upload.columns) \o HeaderTexts(COMPOSITE_COLS)
        /\ \A i \in DOMAIN csv.lines : \A j \in DOMAIN upload.columns :
              upload.columns[j].text \notin (Range(X_TEXT) \cup Range(Y_TEXT)) =>
                  csv.lines[i][j] = upload.rows[NthRetained(i)][j]

\* C10 amended: the export holds the retained respondents in input order,
\* each with its 20 coerced item values in X_COLS, Y_COLS order followed by
\* the four composite columns; the other columns of the upload are not exported.
C10_ExportedTable ==
    pc = "done" =>
        /\ csv.header = ITEM_COLS \o COMPOSITE_COLS
        /\ Len(csv.lines) = Cardinality(ShouldRetain)
        /\ \A i \in DOMAIN csv.lines :
              LET r == NthRetained(i)
                  line == csv.lines[i]
                  xm == line[2 * NumItems + 3]
                  ym == line[2 * NumItems + 4]
              IN  /\ Len(line) = 2 * NumItems + 4
                  /\ \A j \in 1..NumItems :
                        /\ line[j] = Field(Raw(r, X_TEXT[j]))
                        /\ line[NumItems + j] = Field(Raw(r, Y_TEXT[j]))
                  /\ line[2 * NumItems + 1] = <<"numstr", BlockSum(r, X_TEXT), 1>>
                  /\ line[2 * NumItems + 2] = <<"numstr", BlockSum(r, Y_TEXT), 1>>
                  /\ xm[2] * BlockCount(r, X_TEXT) = BlockSum(r, X_TEXT) * xm[3]
                  /\ ym[2] * BlockCount(r, Y_TEXT) = BlockSum(r, Y_TEXT) * ym[3]

C10_Witness ==
    /\ pc = "done"
    /\ Present("Timestamp")
    /\ Len(csv.lines) = 2
    /\ Len(upload.rows) = 3
    /\ ItemsPresent(2) < 18
    /\ ItemsPresent(3) = 18

-----------------------------------------------------------------------------
(* cronbach_alpha on its own, over small item blocks *)

BlockCells == {NaN, Num(4), Num(5)}

\* rows of k answers of 4 or 5, the last of which may be missing
BlockRows(k) == {row \in [1..k -> BlockCells] : \A j \in 1..(k - 1) : NotNa(row[j])}

\* a block of k items answered by the listed rows
Block(k, rows) ==
    [columns |-> SubSeq(X_COLS, 1, k),
     index |-> [r \in DOMAIN rows |-> r - 1],
     rows |-> rows]

AlphaInit ==
    /\ \E k \in 1..MaxBlockItems : \E n \in 0..MaxBlockRows :
          \E rows \in [1..n -> BlockRows(k)] : df_clean = Block(k, rows)
    /\ pc = "alpha_call"
    /\ upload = EmptyFrame
    /\ df = EmptyFrame
    /\ missing_x = <<>>
    /\ missing_y = <<>>
    /\ alpha_x = NaN
    /\ alpha_y = NaN
    /\ shapiro_x = NoResult
    /\ shapiro_y = NoResult
    /\ method = "none"
    /\ corr = NoCorr
    /\ out = <<>>
    /\ csv = NoCsv

\* alpha = cronbach_alpha(df_items), written with four decimals
AlphaCall ==
    /\ pc = "alpha_call"
    /\ alpha_x' = cronbach_alpha(df_clean)
    /\ out' = Append(out, Said("write", "alpha_x", <<alpha_x'>>))
    /\ pc' = "alpha_done"
    /\ UNCHANGED <<upload, df, missing_x, missing_y, df_clean, alpha_y,
                   shapiro_x, shapiro_y, method, corr, csv>>

SpecAlpha == AlphaInit /\ [][AlphaCall]_vars

\* the respondents with every item of the block present
CompleteRows == {r \in DOMAIN df_clean.rows :
                    \A j \in DOMAIN df_clean.columns : IsNum(df_clean.rows[r][j])}

RECURSIVE SumInts(_, _)
SumInts(f, S) == IF S = {} THEN 0
                 ELSE LET x == CHOOSE x \in S : TRUE
                      IN  f[x] + SumInts(f, S \ {x})

\* n * sum of squares - square of the sum: n (n - 1) times the sample variance
ScaledVar(f) ==
    Cardinality(CompleteRows) * SumInts([r \in CompleteRows |-> f[r] * f[r]], CompleteRows)
        - SumInts(f, CompleteRows) * SumInts(f, CompleteRows)

BlockK == Len(df_clean.columns)

RowSums == [r \in CompleteRows |->
              SumInts([j \in 1..BlockK |-> df_clean.rows[r][j][2]], 1..BlockK)]

ScaledTotalVar == ScaledVar(RowSums)

ScaledItemVars ==
    SumInts([j \in 1..BlockK |-> ScaledVar([r \in CompleteRows |-> df_clean.rows[r][j][2]])],
            1..BlockK)

\* C7: alpha is the undefined sentinel, with no error, when the block has at
\* most one item, no complete respondent, or zero variance of the row sums;
\* otherwise it is (k/(k-1)) * (1 - sum of item variances / total variance),
\* all taken over the complete respondents.
C7_Reliability ==
    pc = "alpha_done" =>
        IF BlockK <= 1 \/ CompleteRows = {} \/ ScaledTotalVar = 0
        THEN alpha_x = NaN
        ELSE /\ IsNum(alpha_x)
             /\ alpha_x[2] * (BlockK - 1) * ScaledTotalVar =
                   alpha_x[3] * BlockK * (ScaledTotalVar - ScaledItemVars)

C7_Witness ==
    /\ pc = "alpha_done"
    /\ df_clean.rows = <<<<Num(4), Num(4)>>, <<Num(4), Num(4)>>, <<Num(4), Num(4)>>>>
    /\ alpha_x = NaN

C7_WitnessDefined ==
    /\ pc = "alpha_done"
    /\ Cardinality(CompleteRows) = 2
    /\ Len(df_clean.rows) = 3
    /\ alpha_x = <<"num", 1, 1>>

====
